---- MODULE Spec2Model ----
(***************************************************************************)
(* Claim scheduling of the circle resource-sharing service.                *)
(*                                                                         *)
(* The state is the content of the SQL tables the claim routes read and    *)
(* write (resources, circle_members, claims), the HTTP response of the     *)
(* last request, and the position of every request handler that is         *)
(* suspended at an await.  Times are instants, modelled as integers.       *)
(*                                                                         *)
(* The borrow-request workflow of StorageService keeps its own state: the  *)
(* in-memory maps of resources and borrow requests.                        *)
(***************************************************************************)
EXTENDS Integers, Sequences, FiniteSets, TLC

VARIABLES
    resources,       \* resources table: id -> row
    circle_members,  \* circle_members table: the (circle_id, user_id) rows with is_active
    claims,          \* claims table: sequence of rows, a claim's id is its index
    response,        \* the last HTTP response sent
    pc,              \* per connection: the handler suspended at an await
    query,           \* the last direct ResourceModel.isAvailable call and its result
    broadcast,       \* the last event handed to sseManager.broadcast
    storageResources,\* StorageService.resources: id -> Resource
    borrowRequests,  \* StorageService.borrowRequests: id -> BorrowRequest
    thrown,          \* the last StorageService call: did it throw
    clients,         \* SSEManager.clients: circle slug -> array of client ids
    written          \* per client: the event frames the last broadcast call wrote to it

vars == <<resources, circle_members, claims, response, pc, query,
          broadcast, storageResources, borrowRequests, thrown, clients, written>>

\* the state of SSEManager and of the response streams it holds
sse == <<clients, written>>

\* the state of StorageService
storage == <<storageResources, borrowRequests, thrown>>

\* the SQL tables and the handlers working on them
tables == <<resources, circle_members, claims, pc, query>>

----------------------------------------------------------------------------
(* Bounds *)

MaxTime == 3        \* instants are 0..MaxTime
MaxClaims == 2      \* rows the claims table may hold in the route specifications
MaxStored == 2      \* rows of the claims tables ResourceModel.isAvailable is applied to
MaxRequests == 3    \* borrow requests StorageService may hold

Times == 0..MaxTime

Users == {"u1", "u2"}            \* rows of the users table
Circles == {"c1", "c2"}          \* rows of the circles table
ResourceIds == {"r1", "r2"}      \* rows of the resources table
Procs == {"p1", "p2"}            \* concurrent connections

NoUser == "nobody"               \* an x-user-id that names no row of users
NoResource == "r0"               \* an id that names no row of resources
NoClaim == 0                     \* excludeClaimId not given

HeaderUsers == Users \cup {NoUser}
ParamResources == ResourceIds \cup {NoResource}

----------------------------------------------------------------------------
(* Rows *)

Status == {"active", "completed", "cancelled"}

\* INSERT INTO claims: status takes its column default
NewClaim(resourceId, userId, startTime, endTime) ==
    [resource_id |-> resourceId, user_id |-> userId,
     start_time |-> startTime, end_time |-> endTime, status |-> "active"]

\* the WHERE clause without its third disjunct: a row inside the request is missed
SqlOverlap_NoContained(c, startTime, endTime) ==
    \/ (c.start_time <= startTime /\ c.end_time > startTime)
    \/ (c.start_time < endTime /\ c.end_time >= endTime)

\* the WHERE clause with closed intervals: a row that ends where the request starts matches
SqlOverlap_Closed(c, startTime, endTime) ==
    \/ (c.start_time <= startTime /\ c.end_time >= startTime)
    \/ (c.start_time <= endTime /\ c.end_time >= endTime)
    \/ (c.start_time >= startTime /\ c.end_time <= endTime)

\* the WHERE clause of ResourceModel.isAvailable on one row, without the id test
SqlOverlap(c, startTime, endTime) ==
    \/ (c.start_time <= startTime /\ c.end_time > startTime)
    \/ (c.start_time < endTime /\ c.end_time >= endTime)
    \/ (c.start_time >= startTime /\ c.end_time <= endTime)

\* isAvailable without the id test: excludeClaimId is ignored
isAvailable_NoExclude(table, resourceId, startTime, endTime, excludeClaimId) ==
    ~ \E id \in DOMAIN table :
        /\ table[id].resource_id = resourceId
        /\ table[id].status = "active"
        /\ SqlOverlap(table[id], startTime, endTime)

\* isAvailable without the resource_id test: a claim on any resource blocks
isAvailable_AnyResource(table, resourceId, startTime, endTime, excludeClaimId) ==
    ~ \E id \in DOMAIN table :
        /\ table[id].status = "active"
        /\ SqlOverlap(table[id], startTime, endTime)
        /\ (excludeClaimId # NoClaim => id # excludeClaimId)

\* isAvailable without the status test: completed and cancelled rows block too
isAvailable_AnyStatus(table, resourceId, startTime, endTime, excludeClaimId) ==
    ~ \E id \in DOMAIN table :
        /\ table[id].resource_id = resourceId
        /\ SqlOverlap(table[id], startTime, endTime)
        /\ (excludeClaimId # NoClaim => id # excludeClaimId)

\* ResourceModel.isAvailable: no row is selected
isAvailable(table, resourceId, startTime, endTime, excludeClaimId) ==
    ~ \E id \in DOMAIN table :
        /\ table[id].resource_id = resourceId
        /\ table[id].status = "active"
        /\ SqlOverlap(table[id], startTime, endTime)
        /\ (excludeClaimId # NoClaim => id # excludeClaimId)

\* ClaimModel.findByResource: the rows of the resource, whatever their status;
\* it is what ResourceCard loads and hands to ClaimModal as existingClaims
findByResource(table, resourceId) ==
    {table[id] : id \in {i \in DOMAIN table : table[i].resource_id = resourceId}}

\* ClaimModal.hasConflict: some active claim has
\* proposedStart < claimEnd && proposedEnd > claimStart
hasConflict(existingClaims, proposedStart, proposedEnd) ==
    \E claim \in existingClaims :
        /\ claim.status = "active"
        /\ proposedStart < claim.end_time
        /\ proposedEnd > claim.start_time

\* findById without the is_active test: a soft-deleted row is still found
findById_Inactive(resourceId) == resourceId \in DOMAIN resources

\* ResourceModel.findById: the row, only while is_active
findById(resourceId) ==
    resourceId \in DOMAIN resources /\ resources[resourceId].is_active

\* a row of circle_members; id and joined_at are left out: no query reads them
MemberRow(circleId, userId, active) ==
    [circle_id |-> circleId, user_id |-> userId, is_active |-> active]

\* CircleModel.isMember
isMember(circleId, userId) == MemberRow(circleId, userId, TRUE) \in circle_members

\* CircleModel.getMembers
getMembers(rows, circleId) ==
    {row.user_id : row \in {x \in rows : x.circle_id = circleId /\ x.is_active}}

\* addMember as a plain INSERT on a table without the UNIQUE constraint
addMember_Insert(rows, circleId, userId) ==
    rows \cup {MemberRow(circleId, userId, TRUE)}

\* CircleMemberModel.addMember: INSERT ... ON CONFLICT (circle_id, user_id)
\* DO UPDATE SET is_active = true
addMember(rows, circleId, userId) ==
    IF \E row \in rows : row.circle_id = circleId /\ row.user_id = userId
    THEN {IF row.circle_id = circleId /\ row.user_id = userId
          THEN [row EXCEPT !.is_active = TRUE]
          ELSE row : row \in rows}
    ELSE rows \cup {MemberRow(circleId, userId, TRUE)}

\* requireUser: the header names a row of users
requireUser(userId) == userId \in Users

\* CreateClaimSchema: start_time and end_time are datetime strings
CreateClaimSchema(body) == body.wellformed

\* request bodies: the datetime pairs, and one body the schema rejects
BadBody == [wellformed |-> FALSE, start_time |-> 0, end_time |-> 0]
Bodies == [wellformed : {TRUE}, start_time : Times, end_time : Times] \cup {BadBody}

Reply(op, status) == [op |-> op, status |-> status]

\* sseManager.broadcast(circleSlug, event): the slug and event.type
Event(circleSlug, type) == [slug |-> circleSlug, type |-> type]
NoEvent == Event("", "none")

Idle == [at |-> "idle"]

\* the uuids the events route gives its clients
ClientIds == {"k1", "k2", "k3"}

\* array.splice(i, 1)
splice(array, i) == [j \in 1..(Len(array) - 1) |-> IF j < i THEN array[j] ELSE array[j + 1]]

\* SSEManager.removeClient: the first client with the id leaves the slug's array
removeClient(all, circleSlug, clientId) ==
    IF circleSlug \in DOMAIN all /\ \E i \in 1..Len(all[circleSlug]) : all[circleSlug][i] = clientId
    THEN LET index == CHOOSE i \in 1..Len(all[circleSlug]) :
                          /\ all[circleSlug][i] = clientId
                          /\ \A j \in 1..(i - 1) : all[circleSlug][j] # clientId
         IN [all EXCEPT ![circleSlug] = splice(all[circleSlug], index)]
    ELSE all

\* clients.forEach of SSEManager.broadcast from index k on: the length is read
\* once, an index the array no longer has is skipped, and a write that throws
\* removes its client from the array being walked; fails are the clients whose
\* response.write throws
RECURSIVE forEach(_, _, _, _, _, _)
forEach(all, circleSlug, k, len, fails, frames) ==
    IF k > len THEN [clients |-> all, written |-> frames]
    ELSE IF k > Len(all[circleSlug]) THEN forEach(all, circleSlug, k + 1, len, fails, frames)
    ELSE LET client == all[circleSlug][k] IN
         IF client \in fails
         THEN forEach(removeClient(all, circleSlug, client), circleSlug, k + 1, len, fails, frames)
         ELSE forEach(all, circleSlug, k + 1, len, fails,
                      [frames EXCEPT ![client] = frames[client] + 1])

\* SSEManager.broadcast(circleSlug, event)
sseBroadcast(circleSlug, fails) ==
    LET done == IF circleSlug \in DOMAIN clients
                THEN forEach(clients, circleSlug, 1, Len(clients[circleSlug]), fails,
                             [c \in ClientIds |-> 0])
                ELSE [clients |-> clients, written |-> [c \in ClientIds |-> 0]] IN
    /\ clients' = done.clients
    /\ written' = done.written

\* no events route has been called
InitSSE ==
    /\ clients = [c \in {} |-> <<>>]
    /\ written = [c \in ClientIds |-> 0]
NotAsked == [asked |-> FALSE, result |-> TRUE]

----------------------------------------------------------------------------
(* StorageService: the in-memory maps behind the borrow-request workflow *)

Undefined == "undefined"         \* an optional field that is not set
Missing == ""                    \* a body or query field the request does not carry

Members == {"u1", "u2", "u3"}    \* the users of the circle
Callers == Members \cup {NoUser}
StoredResources == {"resource-r1"}   \* the ids of the resources createResource has stored
UnknownId == "resource-r0"       \* a well-formed id that names nothing
ShortId == "q1"                  \* an id shorter than MIN_ID_LENGTH
MIN_ID_LENGTH == 10

\* StorageService.circles: one circle with its users
storageCircles == [c \in {"c1"} |-> [users |-> Members]]

\* generateId: the n-th uuid handed to a borrow request
generateId(n) == "request-q" \o ToString(n)

RequestIds == {generateId(n) : n \in 1..MaxRequests}

BorrowRequestStatus == {"pending", "approved", "denied", "returned", "cancelled"}

\* what a StorageService call did: every throw is a plain Error
Thrown(op, threw) == [op |-> op, threw |-> threw, isCircleError |-> FALSE, statusCode |-> 0]

\* state after createCircle, addUserToCircle and createResource by u1
InitStorage ==
    /\ storageResources = [r \in StoredResources |->
          [ownerId |-> "u1", circleId |-> "c1", isAvailable |-> TRUE,
           currentBorrowerId |-> Undefined]]
    /\ borrowRequests = [q \in {} |-> Undefined]
    /\ thrown = Thrown("none", FALSE)

----------------------------------------------------------------------------
(* State after initDatabase and the creation of two circles, each with     *)
(* its creator as member and one resource.                                 *)

InitTables ==
    /\ resources = [r \in ResourceIds |->
          [circle_id |-> IF r = "r1" THEN "c1" ELSE "c2",
           created_by |-> IF r = "r1" THEN "u1" ELSE "u2",
           is_active |-> TRUE]]
    /\ circle_members = {MemberRow("c1", "u1", TRUE), MemberRow("c2", "u2", TRUE)}

Init ==
    /\ InitTables
    /\ claims = <<>>
    /\ response = Reply("none", 0)
    /\ pc = [p \in Procs |-> Idle]
    /\ query = NotAsked
    /\ broadcast = NoEvent
    /\ InitStorage
    /\ InitSSE

----------------------------------------------------------------------------
(* Routes, each handler run to completion.  Of these only the join route    *)
(* calls sseManager.broadcast.                                             *)

\* the status the POST /api/resources/:id/claims chain answers with
ClaimStatus(userId, resourceId, body) ==
    IF ~requireUser(userId) THEN 401
    ELSE IF ~CreateClaimSchema(body) THEN 400
    ELSE IF ~findById(resourceId) THEN 404
    ELSE IF ~isAvailable(claims, resourceId, body.start_time, body.end_time, NoClaim) THEN 409
    ELSE 201

\* the route with the insert before the availability answer: a refused claim is stored
RequestClaim_InsertFirst(userId, resourceId, body) ==
    LET status == ClaimStatus(userId, resourceId, body) IN
    /\ claims' = IF status \in {201, 409}
                 THEN Append(claims, NewClaim(resourceId, userId, body.start_time, body.end_time))
                 ELSE claims
    /\ response' = Reply("requestClaim", status)
    /\ UNCHANGED <<resources, circle_members, pc, query, broadcast, sse, storage>>

\* POST /api/resources/:id/claims
RequestClaim(userId, resourceId, body) ==
    LET status == ClaimStatus(userId, resourceId, body) IN
    /\ status = 201 => Len(claims) < MaxClaims
    /\ claims' = IF status = 201
                 THEN Append(claims, NewClaim(resourceId, userId, body.start_time, body.end_time))
                 ELSE claims
    /\ response' = Reply("requestClaim", status)
    /\ UNCHANGED <<resources, circle_members, pc, query, broadcast, sse, storage>>

\* ClaimModel.returnClaim: UPDATE claims SET status, end_time = NOW()
returnClaim(table, claimId, now) ==
    [table EXCEPT ![claimId].status = "completed", ![claimId].end_time = now]

\* ClaimModel.cancel: UPDATE claims SET status
cancel(table, claimId) ==
    [table EXCEPT ![claimId].status = "cancelled"]

\* the return route without the user_id comparison: any known user may return
ReturnStatus_AnyUser(userId, claimId) ==
    IF ~requireUser(userId) THEN 401
    ELSE IF claimId \notin DOMAIN claims THEN 404
    ELSE 200

\* the status POST /api/claims/:id/return answers with
ReturnStatus(userId, claimId) ==
    IF ~requireUser(userId) THEN 401
    ELSE IF claimId \notin DOMAIN claims THEN 404
    ELSE IF claims[claimId].user_id # userId THEN 403
    ELSE 200

\* POST /api/claims/:id/return, answered at instant now
ReturnClaim(userId, claimId, now) ==
    LET status == ReturnStatus(userId, claimId) IN
    /\ claims' = IF status = 200 THEN returnClaim(claims, claimId, now) ELSE claims
    /\ response' = Reply("returnClaim", status)
    /\ UNCHANGED <<resources, circle_members, pc, query, broadcast, sse, storage>>

CancelStatus(userId, claimId) ==
    IF ~requireUser(userId) THEN 401
    ELSE IF claimId \notin DOMAIN claims THEN 404
    ELSE IF claims[claimId].user_id # userId THEN 403
    ELSE 204

\* DELETE /api/claims/:id
CancelClaim(userId, claimId) ==
    LET status == CancelStatus(userId, claimId) IN
    /\ claims' = IF status = 204 THEN cancel(claims, claimId) ELSE claims
    /\ response' = Reply("cancelClaim", status)
    /\ UNCHANGED <<resources, circle_members, pc, query, broadcast, sse, storage>>

\* DELETE /api/resources/:id, ResourceModel.delete
DeleteResource(userId, resourceId) ==
    LET status == IF ~requireUser(userId) THEN 401
                  ELSE IF ~findById(resourceId) THEN 404
                  ELSE 204 IN
    /\ resources' = IF status = 204
                    THEN [resources EXCEPT ![resourceId].is_active = FALSE]
                    ELSE resources
    /\ response' = Reply("deleteResource", status)
    /\ UNCHANGED <<circle_members, claims, pc, query, broadcast, sse, storage>>

\* POST /api/circles/:slug/join, CircleMemberModel.addMember
JoinCircle(circleId, userId) ==
    LET status == IF circleId \notin Circles THEN 404
                  ELSE IF userId \notin Users THEN 404
                  ELSE 201 IN
    /\ circle_members' = IF status = 201
                         THEN addMember(circle_members, circleId, userId)
                         ELSE circle_members
    /\ broadcast' = IF status = 201 THEN Event(circleId, "user_joined") ELSE broadcast
    /\ IF status = 201
       THEN \E fails \in SUBSET ClientIds : sseBroadcast(circleId, fails)
       ELSE UNCHANGED sse
    /\ response' = Reply("joinCircle", status)
    /\ UNCHANGED <<resources, claims, pc, query, storage>>

----------------------------------------------------------------------------
(* POST /api/resources/:id/claims on connection p, one action per await *)

Suspended(at, userId, resourceId, body) ==
    [at |-> at, userId |-> userId, resourceId |-> resourceId, body |-> body]

Done(req, status) ==
    [at |-> "done", userId |-> req.userId, resourceId |-> req.resourceId,
     body |-> req.body, status |-> status]

\* requireUser and validateBody
Receive(p, userId, resourceId, body) ==
    LET req == Suspended("findById", userId, resourceId, body)
        status == IF ~requireUser(userId) THEN 401
                  ELSE IF ~CreateClaimSchema(body) THEN 400 ELSE 0 IN
    /\ pc[p].at = "idle"
    /\ pc' = [pc EXCEPT ![p] = IF status = 0 THEN req ELSE Done(req, status)]
    /\ response' = IF status = 0 THEN response ELSE Reply("requestClaim", status)
    /\ UNCHANGED <<resources, circle_members, claims, query, broadcast, sse, storage>>

\* await ResourceModel.findById
FindResource(p) ==
    /\ pc[p].at = "findById"
    /\ IF findById(pc[p].resourceId)
       THEN /\ pc' = [pc EXCEPT ![p].at = "isAvailable"]
            /\ UNCHANGED response
       ELSE /\ pc' = [pc EXCEPT ![p] = Done(pc[p], 404)]
            /\ response' = Reply("requestClaim", 404)
    /\ UNCHANGED <<resources, circle_members, claims, query, broadcast, sse, storage>>

\* await ResourceModel.isAvailable
CheckAvailable(p) ==
    /\ pc[p].at = "isAvailable"
    /\ IF isAvailable(claims, pc[p].resourceId, pc[p].body.start_time,
                      pc[p].body.end_time, NoClaim)
       THEN /\ pc' = [pc EXCEPT ![p].at = "create"]
            /\ UNCHANGED response
       ELSE /\ pc' = [pc EXCEPT ![p] = Done(pc[p], 409)]
            /\ response' = Reply("requestClaim", 409)
    /\ UNCHANGED <<resources, circle_members, claims, query, broadcast, sse, storage>>

\* await ClaimModel.create
CreateClaim(p) ==
    /\ pc[p].at = "create"
    /\ Len(claims) < MaxClaims
    /\ claims' = Append(claims, NewClaim(pc[p].resourceId, pc[p].userId,
                                         pc[p].body.start_time, pc[p].body.end_time))
    /\ pc' = [pc EXCEPT ![p] = Done(pc[p], 201)]
    /\ response' = Reply("requestClaim", 201)
    /\ UNCHANGED <<resources, circle_members, query, broadcast, sse, storage>>

----------------------------------------------------------------------------
(* ResourceModel.isAvailable called on its own *)

Ask(resourceId, startTime, endTime, excludeClaimId) ==
    /\ ~query.asked
    /\ query' = [asked |-> TRUE,
                 result |-> isAvailable(claims, resourceId, startTime, endTime, excludeClaimId)]
    /\ UNCHANGED <<resources, circle_members, claims, response, pc, broadcast, sse, storage>>

----------------------------------------------------------------------------
(* StorageService methods: each sets the maps and records whether it threw *)

\* createBorrowRequest without the search for the caller's pending request
createBorrowRequestThrows_NoPendingTest(resourceId, requestedBy) ==
    \/ resourceId \notin DOMAIN storageResources
    \/ ~storageResources[resourceId].isAvailable
    \/ storageResources[resourceId].ownerId = requestedBy
    \/ storageResources[resourceId].circleId \notin DOMAIN storageCircles
    \/ requestedBy \notin storageCircles[storageResources[resourceId].circleId].users

createBorrowRequestThrows(resourceId, requestedBy) ==
    \/ resourceId \notin DOMAIN storageResources
    \/ ~storageResources[resourceId].isAvailable
    \/ storageResources[resourceId].ownerId = requestedBy
    \/ storageResources[resourceId].circleId \notin DOMAIN storageCircles
    \/ requestedBy \notin storageCircles[storageResources[resourceId].circleId].users
    \/ \E q \in DOMAIN borrowRequests :
          /\ borrowRequests[q].resourceId = resourceId
          /\ borrowRequests[q].requestedBy = requestedBy
          /\ borrowRequests[q].status = "pending"

\* StorageService.createBorrowRequest
createBorrowRequest(resourceId, requestedBy) ==
    LET threw == createBorrowRequestThrows(resourceId, requestedBy)
        id == generateId(Cardinality(DOMAIN borrowRequests) + 1) IN
    /\ ~threw => Cardinality(DOMAIN borrowRequests) < MaxRequests
    /\ borrowRequests' =
          IF threw THEN borrowRequests
          ELSE borrowRequests @@ (id :> [resourceId |-> resourceId,
                                         requestedBy |-> requestedBy,
                                         status |-> "pending"])
    /\ thrown' = Thrown("createBorrowRequest", threw)
    /\ UNCHANGED storageResources

\* respondToBorrowRequest without the owner test
respondToBorrowRequestThrows_AnyResponder(requestId, respondedBy) ==
    \/ requestId \notin DOMAIN borrowRequests
    \/ borrowRequests[requestId].status # "pending"
    \/ borrowRequests[requestId].resourceId \notin DOMAIN storageResources

respondToBorrowRequestThrows(requestId, respondedBy) ==
    \/ requestId \notin DOMAIN borrowRequests
    \/ borrowRequests[requestId].status # "pending"
    \/ borrowRequests[requestId].resourceId \notin DOMAIN storageResources
    \/ storageResources[borrowRequests[requestId].resourceId].ownerId # respondedBy

\* StorageService.respondToBorrowRequest
respondToBorrowRequest(requestId, approved, respondedBy) ==
    LET threw == respondToBorrowRequestThrows(requestId, respondedBy) IN
    /\ borrowRequests' =
          IF threw THEN borrowRequests
          ELSE [borrowRequests EXCEPT
                   ![requestId].status = IF approved THEN "approved" ELSE "denied"]
    /\ storageResources' =
          IF threw \/ ~approved THEN storageResources
          ELSE [storageResources EXCEPT
                   ![borrowRequests[requestId].resourceId].isAvailable = FALSE,
                   ![borrowRequests[requestId].resourceId].currentBorrowerId =
                        borrowRequests[requestId].requestedBy]
    /\ thrown' = Thrown("respondToBorrowRequest", threw)

returnResourceThrows(resourceId, borrowerId) ==
    \/ resourceId \notin DOMAIN storageResources
    \/ storageResources[resourceId].isAvailable
    \/ storageResources[resourceId].currentBorrowerId # borrowerId

\* StorageService.returnResource
returnResource(resourceId, borrowerId) ==
    LET threw == returnResourceThrows(resourceId, borrowerId) IN
    /\ storageResources' =
          IF threw THEN storageResources
          ELSE [storageResources EXCEPT ![resourceId].isAvailable = TRUE,
                                        ![resourceId].currentBorrowerId = Undefined]
    /\ thrown' = Thrown("returnResource", threw)
    /\ UNCHANGED borrowRequests

returnResourceByRequestThrows(requestId, returnedBy) ==
    \/ requestId \notin DOMAIN borrowRequests
    \/ borrowRequests[requestId].status # "approved"
    \/ borrowRequests[requestId].requestedBy # returnedBy
    \/ borrowRequests[requestId].resourceId \notin DOMAIN storageResources

\* StorageService.returnResourceByRequest
returnResourceByRequest(requestId, returnedBy) ==
    LET threw == returnResourceByRequestThrows(requestId, returnedBy) IN
    /\ borrowRequests' =
          IF threw THEN borrowRequests
          ELSE [borrowRequests EXCEPT ![requestId].status = "returned"]
    /\ storageResources' =
          IF threw THEN storageResources
          ELSE [storageResources EXCEPT
                   ![borrowRequests[requestId].resourceId].isAvailable = TRUE,
                   ![borrowRequests[requestId].resourceId].currentBorrowerId = Undefined]
    /\ thrown' = Thrown("returnResourceByRequest", threw)

\* cancelBorrowRequest without the status test: any request of the caller is cancelled
cancelBorrowRequestThrows_AnyStatus(requestId, cancelledBy) ==
    \/ requestId \notin DOMAIN borrowRequests
    \/ borrowRequests[requestId].requestedBy # cancelledBy

cancelBorrowRequestThrows(requestId, cancelledBy) ==
    \/ requestId \notin DOMAIN borrowRequests
    \/ borrowRequests[requestId].status # "pending"
    \/ borrowRequests[requestId].requestedBy # cancelledBy

\* StorageService.cancelBorrowRequest
cancelBorrowRequest(requestId, cancelledBy) ==
    LET threw == cancelBorrowRequestThrows(requestId, cancelledBy) IN
    /\ borrowRequests' =
          IF threw THEN borrowRequests
          ELSE [borrowRequests EXCEPT ![requestId].status = "cancelled"]
    /\ thrown' = Thrown("cancelBorrowRequest", threw)
    /\ UNCHANGED storageResources

\* the ids generateId may return for a resource: a uuid is new, so it names no
\* stored resource and no borrow request refers to it (the id of a deleted
\* resource that nothing refers to stands for a new uuid)
FreshResourceIds ==
    {id \in StoredResources :
        /\ id \notin DOMAIN storageResources
        /\ \A q \in DOMAIN borrowRequests : borrowRequests[q].resourceId # id}

createResourceThrows(circleId, ownerId) ==
    \/ circleId \notin DOMAIN storageCircles
    \/ ownerId \notin storageCircles[circleId].users

\* StorageService.createResource
createResource(circleId, ownerId) ==
    LET threw == createResourceThrows(circleId, ownerId) IN
    /\ ~threw => FreshResourceIds # {}
    /\ storageResources' =
          IF threw THEN storageResources
          ELSE LET id == CHOOSE i \in FreshResourceIds : TRUE IN
               storageResources @@ (id :> [ownerId |-> ownerId, circleId |-> circleId,
                                           isAvailable |-> TRUE,
                                           currentBorrowerId |-> Undefined])
    /\ thrown' = Thrown("createResource", threw)
    /\ UNCHANGED borrowRequests

deleteResourceThrows(resourceId, userId) ==
    \/ resourceId \notin DOMAIN storageResources
    \/ storageResources[resourceId].ownerId # userId
    \/ ~storageResources[resourceId].isAvailable

\* StorageService.deleteResource: the record is removed from the map
deleteResource(resourceId, userId) ==
    LET threw == deleteResourceThrows(resourceId, userId) IN
    /\ storageResources' =
          IF threw THEN storageResources
          ELSE [r \in DOMAIN storageResources \ {resourceId} |-> storageResources[r]]
    /\ thrown' = Thrown("deleteResource", threw)
    /\ UNCHANGED borrowRequests

\* borrowResource without the owner test: the owner may borrow the resource
borrowResourceThrows_Owner(resourceId, borrowerId) ==
    \/ resourceId \notin DOMAIN storageResources
    \/ ~storageResources[resourceId].isAvailable
    \/ storageResources[resourceId].circleId \notin DOMAIN storageCircles
    \/ borrowerId \notin storageCircles[storageResources[resourceId].circleId].users

borrowResourceThrows(resourceId, borrowerId) ==
    \/ resourceId \notin DOMAIN storageResources
    \/ ~storageResources[resourceId].isAvailable
    \/ storageResources[resourceId].ownerId = borrowerId
    \/ storageResources[resourceId].circleId \notin DOMAIN storageCircles
    \/ borrowerId \notin storageCircles[storageResources[resourceId].circleId].users

\* StorageService.borrowResource
borrowResource(resourceId, borrowerId) ==
    LET threw == borrowResourceThrows(resourceId, borrowerId) IN
    /\ storageResources' =
          IF threw THEN storageResources
          ELSE [storageResources EXCEPT ![resourceId].isAvailable = FALSE,
                                        ![resourceId].currentBorrowerId = borrowerId]
    /\ thrown' = Thrown("borrowResource", threw)
    /\ UNCHANGED borrowRequests

----------------------------------------------------------------------------
(* Borrow-request routes *)

\* ValidationUtils.validateId, validateRequired
validateId(id) == ~(id = Missing \/ Len(id) < MIN_ID_LENGTH)
validateRequired(value) == value # Missing

\* ErrorHandler.handleApiError: the statusCode of a CircleError, otherwise 500
handleApiError(error) == IF error.isCircleError THEN error.statusCode ELSE 500

\* the answer of a route whose StorageService call has been made
Answer(op, ok) ==
    /\ response' = Reply(op, IF thrown'.threw THEN handleApiError(thrown') ELSE ok)
    /\ UNCHANGED <<tables, broadcast, sse>>

\* the 400 of a failed validation
BadRequest(op) ==
    /\ response' = Reply(op, 400)
    /\ UNCHANGED <<tables, broadcast, sse, storage>>

\* POST /api/borrow-requests
PostBorrowRequest(resourceId, requestedBy) ==
    IF ~validateRequired(resourceId) \/ ~validateRequired(requestedBy)
    THEN BadRequest("postBorrowRequest")
    ELSE createBorrowRequest(resourceId, requestedBy) /\ Answer("postBorrowRequest", 201)

\* PUT /api/borrow-requests/:id/respond
PutRespond(id, approved, respondedBy) ==
    IF ~validateId(id) \/ ~validateRequired(respondedBy)
    THEN BadRequest("putRespond")
    ELSE respondToBorrowRequest(id, approved, respondedBy) /\ Answer("putRespond", 200)

\* PUT /api/borrow-requests/:id/return: the id goes to StorageService.returnResource
PutReturn(id, returnedBy) ==
    IF ~validateId(id) \/ ~validateRequired(returnedBy)
    THEN BadRequest("putReturn")
    ELSE returnResource(id, returnedBy) /\ Answer("putReturn", 200)

\* PUT /api/borrow-requests/:id/cancel
PutCancel(id, userId) ==
    IF ~validateId(id) \/ ~validateRequired(userId)
    THEN BadRequest("putCancel")
    ELSE cancelBorrowRequest(id, userId) /\ Answer("putCancel", 200)

----------------------------------------------------------------------------
(* Specifications *)

\* Scheduling of one resource: claimed by u1, returned or cancelled by anybody
Requesters == {"u1", NoUser}

Next ==
    \/ \E u \in Requesters, r \in {"r1", NoResource}, b \in Bodies : RequestClaim(u, r, b)
    \/ \E u \in HeaderUsers, id \in 1..MaxClaims, now \in Times : ReturnClaim(u, id, now)
    \/ \E u \in HeaderUsers, id \in 1..MaxClaims : CancelClaim(u, id)

Spec == Init /\ [][Next]_vars

\* The preconditions of a claim: any user, any resource, joins and deletes,
\* every request for one of two adjacent slots
SlotBodies == {b \in Bodies : b.wellformed => b.end_time = b.start_time + 1 /\ b.end_time <= 2}

NextRoutes ==
    \/ \E u \in HeaderUsers, r \in ParamResources, b \in SlotBodies : RequestClaim(u, r, b)
    \/ \E u \in HeaderUsers, r \in ParamResources : DeleteResource(u, r)
    \/ \E c \in Circles, u \in HeaderUsers : JoinCircle(c, u)

SpecRoutes == Init /\ [][NextRoutes]_vars

\* Two connections, each sending one claim request, interleaved at the awaits
NextConc ==
    \/ \E p \in Procs, u \in Users, r \in ResourceIds, b \in Bodies : Receive(p, u, r, b)
    \/ \E p \in Procs : FindResource(p)
    \/ \E p \in Procs : CheckAvailable(p)
    \/ \E p \in Procs : CreateClaim(p)

SpecConc == Init /\ [][NextConc]_vars

\* Two connections claiming slots of either resource while u1 returns and
\* cancels claims
IndepBodies ==
    {b \in Bodies : b.wellformed /\ b.start_time < b.end_time /\ b.end_time <= 2}

NextIndep ==
    \/ \E p \in Procs, r \in ResourceIds, b \in IndepBodies : Receive(p, "u1", r, b)
    \/ \E p \in Procs : FindResource(p)
    \/ \E p \in Procs : CheckAvailable(p)
    \/ \E p \in Procs : CreateClaim(p)
    \/ \E id \in 1..MaxClaims : ReturnClaim("u1", id, 1)
    \/ \E id \in 1..MaxClaims : CancelClaim("u1", id)

SpecIndep == Init /\ [][NextIndep]_vars

\* isAvailable on every claims table of at most MaxStored rows with start < end
StoredRows ==
    {c \in [resource_id : ResourceIds, user_id : {"u1"}, start_time : Times,
             end_time : Times, status : Status] : c.start_time < c.end_time}

StoredTables == UNION {[1..n -> StoredRows] : n \in 0..MaxStored}

InitAvail ==
    /\ InitTables
    /\ claims \in StoredTables
    /\ response = Reply("none", 0)
    /\ pc = [p \in Procs |-> Idle]
    /\ query = NotAsked
    /\ broadcast = NoEvent
    /\ InitStorage
    /\ InitSSE

NextAvail ==
    \E r \in ResourceIds, s \in Times, e \in Times, x \in 0..MaxStored :
        s < e /\ Ask(r, s, e, x)

SpecAvail == InitAvail /\ [][NextAvail]_vars

\* The join route on every circle_members table the UNIQUE(circle_id, user_id)
\* constraint admits, rows with is_active = false included
MemberTables ==
    {t \in SUBSET [circle_id : Circles, user_id : Users, is_active : BOOLEAN] :
        \A x \in t, y \in t :
            (x.circle_id = y.circle_id /\ x.user_id = y.user_id) => x = y}

InitJoin ==
    /\ resources = [r \in ResourceIds |->
          [circle_id |-> IF r = "r1" THEN "c1" ELSE "c2",
           created_by |-> IF r = "r1" THEN "u1" ELSE "u2",
           is_active |-> TRUE]]
    /\ circle_members \in MemberTables
    /\ claims = <<>>
    /\ response = Reply("none", 0)
    /\ pc = [p \in Procs |-> Idle]
    /\ query = NotAsked
    /\ broadcast = NoEvent
    /\ InitStorage
    /\ InitSSE

NextJoin == \E c \in Circles \cup {"c0"}, u \in HeaderUsers : JoinCircle(c, u)

SpecJoin == InitJoin /\ [][NextJoin]_vars

\* GET /api/circles/:slug/events: SSEManager.addClient with a fresh uuid
AddClient(circleSlug, clientId) ==
    /\ \A slug \in DOMAIN clients : \A i \in 1..Len(clients[slug]) : clients[slug][i] # clientId
    /\ clients' = IF circleSlug \in DOMAIN clients
                  THEN [clients EXCEPT ![circleSlug] = Append(@, clientId)]
                  ELSE clients @@ (circleSlug :> <<clientId>>)
    /\ UNCHANGED <<tables, response, broadcast, storage, written>>

\* the 'close' handlers of the events route and of addClient
RemoveClient(circleSlug, clientId) ==
    /\ clients' = removeClient(clients, circleSlug, clientId)
    /\ UNCHANGED <<tables, response, broadcast, storage, written>>

\* sseManager.broadcast called with an event for circleSlug
Broadcast(circleSlug, fails) ==
    /\ sseBroadcast(circleSlug, fails)
    /\ broadcast' = Event(circleSlug, "user_joined")
    /\ UNCHANGED <<tables, response, storage>>

\* The event streams: clients connect and close, events are broadcast
NextSSE ==
    \/ \E slug \in Circles, k \in ClientIds : AddClient(slug, k)
    \/ \E slug \in Circles, k \in ClientIds : RemoveClient(slug, k)
    \/ \E slug \in Circles, fails \in SUBSET ClientIds : Broadcast(slug, fails)

SpecSSE == Init /\ [][NextSSE]_vars

\* The borrow-request workflow, StorageService called directly
NextBorrow ==
    \/ \E r \in StoredResources \cup {UnknownId}, u \in Callers :
          createBorrowRequest(r, u) /\ UNCHANGED <<tables, response, broadcast, sse>>
    \/ \E q \in RequestIds, a \in BOOLEAN, u \in Callers :
          respondToBorrowRequest(q, a, u) /\ UNCHANGED <<tables, response, broadcast, sse>>
    \/ \E q \in RequestIds, u \in Callers :
          returnResourceByRequest(q, u) /\ UNCHANGED <<tables, response, broadcast, sse>>
    \/ \E q \in RequestIds, u \in Callers :
          cancelBorrowRequest(q, u) /\ UNCHANGED <<tables, response, broadcast, sse>>

SpecBorrow == Init /\ [][NextBorrow]_vars

\* The borrow-request workflow through its routes
BodyUsers == Callers \cup {Missing}
PathIds == RequestIds \cup StoredResources \cup {ShortId}

NextBorrowRoutes ==
    \/ \E r \in StoredResources \cup {UnknownId}, u \in BodyUsers : PostBorrowRequest(r, u)
    \/ \E q \in PathIds, a \in BOOLEAN, u \in BodyUsers : PutRespond(q, a, u)
    \/ \E q \in PathIds, u \in BodyUsers : PutReturn(q, u)
    \/ \E q \in PathIds, u \in BodyUsers : PutCancel(q, u)

SpecBorrowRoutes == Init /\ [][NextBorrowRoutes]_vars

\* Every StorageService method the routes can reach, plus returnResourceByRequest;
\* a deleted resource is created again by u2
NextStorage ==
    \/ \E r \in StoredResources \cup {UnknownId}, u \in Callers :
          createBorrowRequest(r, u) /\ UNCHANGED <<tables, response, broadcast, sse>>
    \/ \E q \in RequestIds, a \in BOOLEAN, u \in Members :
          respondToBorrowRequest(q, a, u) /\ UNCHANGED <<tables, response, broadcast, sse>>
    \/ \E q \in RequestIds, u \in Members :
          returnResourceByRequest(q, u) /\ UNCHANGED <<tables, response, broadcast, sse>>
    \/ \E q \in RequestIds, u \in Members :
          cancelBorrowRequest(q, u) /\ UNCHANGED <<tables, response, broadcast, sse>>
    \/ \E r \in StoredResources \cup {UnknownId}, u \in Callers :
          borrowResource(r, u) /\ UNCHANGED <<tables, response, broadcast, sse>>
    \/ \E r \in StoredResources, u \in Members :
          returnResource(r, u) /\ UNCHANGED <<tables, response, broadcast, sse>>
    \/ \E r \in StoredResources, u \in Members :
          deleteResource(r, u) /\ UNCHANGED <<tables, response, broadcast, sse>>
    \/ \E c \in {"c1", "c0"}, u \in {"u2", NoUser} :
          createResource(c, u) /\ UNCHANGED <<tables, response, broadcast, sse>>

SpecStorage == Init /\ [][NextStorage]_vars

----------------------------------------------------------------------------
(* Properties *)

ActiveOn(resourceId) ==
    {id \in DOMAIN claims : claims[id].resource_id = resourceId /\ claims[id].status = "active"}

\* the closed-open intervals [s1,e1) and [s2,e2) share an instant
ShareInstant(s1, e1, s2, e2) ==
    \E t \in Times : s1 <= t /\ t < e1 /\ s2 <= t /\ t < e2

\* the conflict rule of the specification: NOT (end <= s OR start >= e)
RuleOverlap(c, startTime, endTime) ==
    ~ (endTime <= c.start_time \/ startTime >= c.end_time)

\* C1: after any sequence of requestClaim, returnClaim and cancelClaim, each run
\* to completion, no two distinct active claims of one resource have closed-open
\* intervals [start,end) that share an instant.
C1_ActiveClaimsDisjoint ==
    \A i \in DOMAIN claims, j \in DOMAIN claims :
        (i # j /\ claims[i].resource_id = claims[j].resource_id
               /\ claims[i].status = "active" /\ claims[j].status = "active")
        => /\ ~ShareInstant(claims[i].start_time, claims[i].end_time,
                            claims[j].start_time, claims[j].end_time)
           /\ ~RuleOverlap(claims[i], claims[j].start_time, claims[j].end_time)

\* two active claims on one resource, the second starting where the first ends,
\* after a request for an identical interval has been refused
C1_Witness ==
    /\ \E i \in ActiveOn("r1"), j \in ActiveOn("r1") :
          /\ claims[i].start_time < claims[i].end_time
          /\ claims[i].end_time = claims[j].start_time
          /\ claims[j].start_time < claims[j].end_time
    /\ response = Reply("requestClaim", 409)

\* C2: two requestClaim calls for the identical interval on the same resource,
\* their availability checks and inserts interleaved in any order: exactly one is
\* answered 201, the other 409, and at most one active claim holds the interval.
C2_ExactlyOneSucceeds ==
    \A p \in Procs, q \in Procs :
        (/\ p # q
         /\ pc[p].at = "done" /\ pc[q].at = "done"
         /\ pc[p].status \in {201, 409} /\ pc[q].status \in {201, 409}
         /\ pc[p].resourceId = pc[q].resourceId
         /\ pc[p].body = pc[q].body
         /\ pc[p].body.start_time < pc[p].body.end_time)
        => /\ {pc[p].status, pc[q].status} = {201, 409}
           /\ Cardinality({id \in ActiveOn(pc[p].resourceId) :
                   /\ claims[id].start_time = pc[p].body.start_time
                   /\ claims[id].end_time = pc[p].body.end_time}) <= 1

\* the result of isAvailable by the conflict rule of the specification
RuleAvailable(table, resourceId, startTime, endTime, excludeClaimId) ==
    ~ \E id \in DOMAIN table :
        /\ table[id].resource_id = resourceId
        /\ table[id].status = "active"
        /\ id # excludeClaimId
        /\ RuleOverlap(table[id], startTime, endTime)

\* C3: on every claims table whose rows have start < end, for every resource, every
\* interval with start < end and every excludeClaimId, isAvailable is false exactly
\* when an active row of that resource other than excludeClaimId satisfies
\* NOT (end <= s OR start >= e); rows of other resources and completed or
\* cancelled rows do not change the result (RuleAvailable does not read them).
C3_IsAvailableIsRule ==
    \A r \in ResourceIds, s \in Times, e \in Times, x \in 0..MaxStored :
        s < e =>
            isAvailable(claims, r, s, e, x) = RuleAvailable(claims, r, s, e, x)

\* isAvailable has answered false on a table that holds an active row of r1 and a
\* row of r2
C3_Witness ==
    /\ query.asked /\ ~query.result
    /\ Len(claims) = 2
    /\ claims[1].resource_id = "r1" /\ claims[1].status = "active"
    /\ claims[2].resource_id = "r2"

\* the requests that pass requireUser and validateBody with a proper interval
ProperBodies == {b \in Bodies : b.wellformed /\ b.start_time < b.end_time}

\* C4: a request for [t0,t1) on a resource whose active claims all end at or before
\* t0 or start at or after t1 (so for [t1,t2) after [t0,t1), in either order) is
\* answered 201, and a request for an interval strictly inside the interval of an
\* active claim is answered 409.
C4_AdjacentAcceptedInsideRejected ==
    [][\A u \in Users, r \in ResourceIds, b \in ProperBodies :
        (response'.op = "requestClaim" /\ findById(r) /\ RequestClaim(u, r, b)) =>
            /\ (\A id \in ActiveOn(r) :
                    /\ claims[id].start_time < claims[id].end_time
                    /\ (claims[id].end_time <= b.start_time
                            \/ b.end_time <= claims[id].start_time))
               => response'.status = 201
            /\ (\E id \in ActiveOn(r) :
                    claims[id].start_time < b.start_time /\ b.end_time < claims[id].end_time)
               => response'.status = 409]_vars

\* [t1,t2) has just been claimed on a resource where [t0,t1) is active
C4_Witness ==
    /\ response = Reply("requestClaim", 201)
    /\ Len(claims) = 2
    /\ claims[1].resource_id = claims[2].resource_id
    /\ claims[1].status = "active" /\ claims[2].status = "active"
    /\ claims[1].start_time < claims[1].end_time
    /\ claims[1].end_time = claims[2].start_time
    /\ claims[2].start_time < claims[2].end_time

\* C5: every stored claim, whatever its status, has start_time < end_time.
C5_StartBeforeEnd ==
    \A id \in DOMAIN claims : claims[id].start_time < claims[id].end_time

\* C6: a requestClaim with end <= start is answered 400 and creates no claim.
C6_EmptyIntervalRejected ==
    [][\A u \in Users, r \in ResourceIds, b \in Bodies :
        (b.wellformed /\ b.end_time <= b.start_time /\ RequestClaim(u, r, b)) =>
            (response'.status = 400 /\ claims' = claims)]_vars

\* C7: requestClaim creates a claim only for an active member of the circle that
\* owns the resource; an existing user who is not a member is answered 403 and no
\* claim is created.
C7_MembersOnly ==
    [][\A u \in Users, r \in ResourceIds, b \in Bodies :
        (b.wellformed /\ findById(r) /\ ~isMember(resources[r].circle_id, u)
            /\ RequestClaim(u, r, b)) =>
            (response'.status = 403 /\ claims' = claims)]_vars

\* C8: requestClaim (by a known user, with a body the schema accepts) on a resource
\* id that names no row, or a row with is_active = false, is answered 404 and
\* creates no claim.
C8_MissingResource404 ==
    [][(response'.op = "requestClaim" /\ ~(response'.status = 404 /\ claims' = claims)) =>
        \A r \in ParamResources :
            (r \notin DOMAIN resources \/ ~resources[r].is_active) =>
                \A u \in Users, b \in Bodies :
                    ~(b.wellformed /\ RequestClaim(u, r, b))]_vars

\* a claim request on the soft-deleted r1 has been answered 404 while r1 holds a claim
C8_Witness ==
    /\ response = Reply("requestClaim", 404)
    /\ ~resources["r1"].is_active /\ resources["r2"].is_active
    /\ \E id \in DOMAIN claims : claims[id].resource_id = "r1"

\* C9: a requestClaim whose interval overlaps an active claim is answered 409, and
\* a requestClaim answered 409 leaves the claims and the resources as they were.
C9_ConflictMutatesNothing ==
    [][/\ \A u \in Users, r \in ResourceIds, b \in ProperBodies :
            (/\ response'.op = "requestClaim" /\ findById(r)
             /\ \E id \in ActiveOn(r) :
                   /\ claims[id].start_time < claims[id].end_time
                   /\ RuleOverlap(claims[id], b.start_time, b.end_time)
             /\ RequestClaim(u, r, b))
            => response'.status = 409
       /\ (response' = Reply("requestClaim", 409) /\ response' # response)
            => (claims' = claims /\ resources' = resources)]_vars

\* a request has been answered 409 while the table holds an active claim
C9_Witness ==
    /\ response = Reply("requestClaim", 409)
    /\ \E id \in DOMAIN claims : claims[id].status = "active"

\* C10: once a claim is completed or cancelled, no returnClaim or cancelClaim changes
\* its status or any other field.
C10_TerminalStatus ==
    [][\A id \in DOMAIN claims :
        claims[id].status \in {"completed", "cancelled"} => claims'[id] = claims[id]]_vars

\* C11: cancelClaim or returnClaim by the claim's own user on a claim whose status
\* is not active (such as a second cancelClaim on the same claim) is answered 409.
C11_NotActiveConflict ==
    [][/\ \A u \in Users, id \in DOMAIN claims, now \in Times :
            (/\ response'.op = "returnClaim"
             /\ claims[id].user_id = u /\ claims[id].status # "active"
             /\ ReturnClaim(u, id, now))
            => response'.status = 409
       /\ \A u \in Users, id \in DOMAIN claims :
            (/\ response'.op = "cancelClaim"
             /\ claims[id].user_id = u /\ claims[id].status # "active"
             /\ CancelClaim(u, id))
            => response'.status = 409]_vars

\* C12: returnClaim and cancelClaim change a claim only for the claim's own user:
\* a call by another user is answered 403 and a call for an unknown claim id 404,
\* both leaving every claim as it was, and a claim that changes belongs to a user
\* whose call has just been answered 200 or 204.
C12_OwnUserOnly ==
    [][/\ \A u \in Users, id \in 1..MaxClaims, now \in Times :
            (response'.op = "returnClaim" /\ ReturnClaim(u, id, now)) =>
                /\ id \notin DOMAIN claims => (response'.status = 404 /\ claims' = claims)
                /\ (id \in DOMAIN claims /\ claims[id].user_id # u)
                      => (response'.status = 403 /\ claims' = claims)
       /\ \A u \in Users, id \in 1..MaxClaims :
            (response'.op = "cancelClaim" /\ CancelClaim(u, id)) =>
                /\ id \notin DOMAIN claims => (response'.status = 404 /\ claims' = claims)
                /\ (id \in DOMAIN claims /\ claims[id].user_id # u)
                      => (response'.status = 403 /\ claims' = claims)
       /\ \A id \in DOMAIN claims :
            claims'[id] # claims[id] =>
                \/ \E now \in Times : ReturnClaim(claims[id].user_id, id, now)
                \/ CancelClaim(claims[id].user_id, id)]_vars

\* another user's return of an active claim has been answered 403
C12_Witness ==
    /\ response = Reply("returnClaim", 403)
    /\ \E id \in DOMAIN claims : claims[id].status = "active" /\ claims[id].user_id = "u1"

\* C13: cancelling or returning a claim frees its interval: a requestClaim for
\* [t0,t1), t0 < t1, on a resource that holds a cancelled or completed claim
\* starting at t0 and no active claim overlapping [t0,t1) is answered 201.
C13_FreedInterval ==
    [][\A u \in Users, r \in ResourceIds, b \in ProperBodies :
        (/\ response'.op = "requestClaim" /\ findById(r)
         /\ \E id \in DOMAIN claims :
               /\ claims[id].resource_id = r
               /\ claims[id].status \in {"cancelled", "completed"}
               /\ claims[id].start_time = b.start_time
         /\ \A id \in ActiveOn(r) : ~RuleOverlap(claims[id], b.start_time, b.end_time)
         /\ RequestClaim(u, r, b))
        => response'.status = 201]_vars

\* C14: right after a requestClaim answered 201, isAvailable for the same interval
\* on the same resource is false without excludeClaimId, and true with
\* excludeClaimId = the new claim's id when no other active claim overlaps.
C14_NewClaimBlocksItself ==
    [][Len(claims') = Len(claims) + 1 =>
        LET id == Len(claims')
            c == claims'[id] IN
        /\ ~isAvailable(claims', c.resource_id, c.start_time, c.end_time, NoClaim)
        /\ (\A other \in ActiveOn(c.resource_id) :
                ~RuleOverlap(claims[other], c.start_time, c.end_time))
           => isAvailable(claims', c.resource_id, c.start_time, c.end_time, id)]_vars

\* a claim has just been created next to an active claim that it does not overlap
C14_Witness ==
    /\ response = Reply("requestClaim", 201)
    /\ Len(claims) = 2
    /\ claims[1].status = "active" /\ claims[2].status = "active"
    /\ claims[1].resource_id = claims[2].resource_id
    /\ claims[2].start_time < claims[2].end_time
    /\ claims[2].end_time <= claims[1].start_time
    /\ ~isAvailable(claims, claims[2].resource_id, claims[2].start_time,
                    claims[2].end_time, NoClaim)
    /\ isAvailable(claims, claims[2].resource_id, claims[2].start_time,
                   claims[2].end_time, 2)

\* C15: a successful returnClaim of a claim with start_time < end_time leaves
\* end_time >= start_time (a return before the start is refused or clamped).
C15_ReturnKeepsOrder ==
    [][\A u \in Users, id \in DOMAIN claims, now \in Times :
        (/\ response'.op = "returnClaim"
         /\ claims[id].start_time < claims[id].end_time
         /\ ReturnClaim(u, id, now))
        => claims'[id].end_time >= claims'[id].start_time]_vars

\* C16: every requestClaim answered 201, returnClaim answered 200 and cancelClaim
\* answered 204 hands a claim_created, claim_returned or claim_cancelled event to
\* the event stream of the circle that owns the resource.
C16_ClaimEventsEmitted ==
    [][/\ \A u \in Users, r \in ResourceIds, b \in Bodies :
            (/\ response' = Reply("requestClaim", 201) /\ findById(r)
             /\ RequestClaim(u, r, b))
            => broadcast' = Event(resources[r].circle_id, "claim_created")
       /\ \A u \in Users, id \in DOMAIN claims, now \in Times :
            (response' = Reply("returnClaim", 200) /\ ReturnClaim(u, id, now))
            => broadcast' = Event(resources[claims[id].resource_id].circle_id,
                                  "claim_returned")
       /\ \A u \in Users, id \in DOMAIN claims :
            (response' = Reply("cancelClaim", 204) /\ CancelClaim(u, id))
            => broadcast' = Event(resources[claims[id].resource_id].circle_id,
                                  "claim_cancelled")]_vars

\* the transitions of a borrow request's status
BorrowTransitions ==
    {<<"pending", "approved">>, <<"pending", "denied">>,
     <<"pending", "cancelled">>, <<"approved", "returned">>}

\* C17: a borrow request starts pending and its status changes only along
\* pending->approved, pending->denied, pending->cancelled and approved->returned;
\* respondToBorrowRequest and cancelBorrowRequest on a request that is not pending,
\* and returnResourceByRequest on one that is not approved, throw and leave the
\* requests and the resources unchanged.
C17_StatusMachine ==
    [][/\ \A q \in DOMAIN borrowRequests' :
            q \notin DOMAIN borrowRequests => borrowRequests'[q].status = "pending"
       /\ \A q \in DOMAIN borrowRequests :
            /\ q \in DOMAIN borrowRequests'
            /\ \/ borrowRequests'[q].status = borrowRequests[q].status
               \/ <<borrowRequests[q].status, borrowRequests'[q].status>> \in BorrowTransitions
       /\ \A q \in DOMAIN borrowRequests, a \in BOOLEAN, u \in Callers :
            (/\ thrown'.op = "respondToBorrowRequest"
             /\ borrowRequests[q].status # "pending"
             /\ respondToBorrowRequest(q, a, u))
            => (thrown'.threw /\ UNCHANGED <<borrowRequests, storageResources>>)
       /\ \A q \in DOMAIN borrowRequests, u \in Callers :
            (/\ thrown'.op = "returnResourceByRequest"
             /\ borrowRequests[q].status # "approved"
             /\ returnResourceByRequest(q, u))
            => (thrown'.threw /\ UNCHANGED <<borrowRequests, storageResources>>)
       /\ \A q \in DOMAIN borrowRequests, u \in Callers :
            (/\ thrown'.op = "cancelBorrowRequest"
             /\ borrowRequests[q].status # "pending"
             /\ cancelBorrowRequest(q, u))
            => (thrown'.threw /\ UNCHANGED <<borrowRequests, storageResources>>)]_vars

\* requests have ended returned, denied and cancelled, and a cancelBorrowRequest
\* on one of them has thrown
C17_Witness ==
    /\ thrown = Thrown("cancelBorrowRequest", TRUE)
    /\ DOMAIN borrowRequests = RequestIds
    /\ {borrowRequests[q].status : q \in RequestIds} = {"returned", "denied", "cancelled"}

\* C18: a request goes from pending to approved or denied only by a respond call
\* of the owner of its resource, from approved to returned and from pending to
\* cancelled only by a call of its requester; a call by any other user throws and
\* changes neither the requests nor the resources.
C18_OwnerAndRequesterOnly ==
    [][/\ \A q \in DOMAIN borrowRequests, a \in BOOLEAN, u \in Callers :
            (/\ thrown'.op = "respondToBorrowRequest"
             /\ u # storageResources[borrowRequests[q].resourceId].ownerId
             /\ respondToBorrowRequest(q, a, u))
            => (thrown'.threw /\ UNCHANGED <<borrowRequests, storageResources>>)
       /\ \A q \in DOMAIN borrowRequests, u \in Callers :
            (/\ thrown'.op = "returnResourceByRequest"
             /\ u # borrowRequests[q].requestedBy
             /\ returnResourceByRequest(q, u))
            => (thrown'.threw /\ UNCHANGED <<borrowRequests, storageResources>>)
       /\ \A q \in DOMAIN borrowRequests, u \in Callers :
            (/\ thrown'.op = "cancelBorrowRequest"
             /\ u # borrowRequests[q].requestedBy
             /\ cancelBorrowRequest(q, u))
            => (thrown'.threw /\ UNCHANGED <<borrowRequests, storageResources>>)
       /\ \A q \in DOMAIN borrowRequests :
            LET old == borrowRequests[q].status
                new == borrowRequests'[q].status
                owner == storageResources[borrowRequests[q].resourceId].ownerId
                requester == borrowRequests[q].requestedBy IN
            /\ (old = "pending" /\ new \in {"approved", "denied"})
                  => \E a \in BOOLEAN : respondToBorrowRequest(q, a, owner)
            /\ (old = "approved" /\ new = "returned")
                  => returnResourceByRequest(q, requester)
            /\ (old = "pending" /\ new = "cancelled")
                  => cancelBorrowRequest(q, requester)]_vars

\* one request has been approved by the owner and returned by its requester, and
\* a respond call has thrown while the two other requests are pending
C18_Witness ==
    /\ thrown = Thrown("respondToBorrowRequest", TRUE)
    /\ DOMAIN borrowRequests = RequestIds
    /\ Cardinality({q \in RequestIds : borrowRequests[q].status = "pending"}) = 2
    /\ Cardinality({q \in RequestIds : borrowRequests[q].status = "returned"}) = 1
    /\ \A r \in StoredResources : storageResources[r].isAvailable

\* C19: in every reachable state of the borrow-request workflow each resource has
\* at most one borrow request with status approved.
C19_OneApprovedPerResource ==
    \A r \in StoredResources :
        Cardinality({q \in DOMAIN borrowRequests :
            borrowRequests[q].resourceId = r /\ borrowRequests[q].status = "approved"}) <= 1

\* C20: PUT /api/borrow-requests/:id/return by the requester of an approved
\* borrow request is answered 200, marks the request returned and makes its
\* resource available again, with no current borrower.
C20_PutReturnReturns ==
    [][\A q \in DOMAIN borrowRequests, u \in Members :
        (/\ response'.op = "putReturn"
         /\ borrowRequests[q].status = "approved" /\ borrowRequests[q].requestedBy = u
         /\ PutReturn(q, u))
        => /\ response'.status = 200
           /\ borrowRequests'[q].status = "returned"
           /\ storageResources'[borrowRequests[q].resourceId].isAvailable
           /\ storageResources'[borrowRequests[q].resourceId].currentBorrowerId = Undefined]_vars

\* the operations of the borrow-request routes
BorrowRouteOps == {"postBorrowRequest", "putRespond", "putReturn", "putCancel"}

\* C21: a request the borrow-request routes reject for a business reason is never
\* answered 500: a respond for an unknown request is answered 404, for a request
\* that is not pending 409, by a user who is not the resource's owner 403, and no
\* answer of these routes is a 500 (the model has no storage failure).
C21_BusinessErrorsNot500 ==
    [][/\ response'.op \in BorrowRouteOps => response'.status # 500
       /\ \A q \in RequestIds, a \in BOOLEAN, u \in Callers :
            (response'.op = "putRespond" /\ PutRespond(q, a, u)) =>
                /\ q \notin DOMAIN borrowRequests => response'.status = 404
                /\ (q \in DOMAIN borrowRequests /\ borrowRequests[q].status # "pending")
                      => response'.status = 409
                /\ (/\ q \in DOMAIN borrowRequests
                    /\ borrowRequests[q].status = "pending"
                    /\ storageResources[borrowRequests[q].resourceId].ownerId # u)
                      => response'.status = 403]_vars

\* C22: no referenced resource record is removed: every claim names a row of the
\* resources table, and every pending or approved borrow request names a
\* resource that StorageService still stores.
C22_ReferencedResourcesStay ==
    /\ \A id \in DOMAIN claims : claims[id].resource_id \in DOMAIN resources
    /\ \A q \in DOMAIN borrowRequests :
          borrowRequests[q].status \in {"pending", "approved"}
              => borrowRequests[q].resourceId \in DOMAIN storageResources

\* C27: whenever a borrow request is approved, its resource is stored with
\* isAvailable = false and currentBorrowerId = the request's requester.
C27_ApprovedMeansBorrowed ==
    \A q \in DOMAIN borrowRequests :
        borrowRequests[q].status = "approved" =>
            /\ borrowRequests[q].resourceId \in DOMAIN storageResources
            /\ ~storageResources[borrowRequests[q].resourceId].isAvailable
            /\ storageResources[borrowRequests[q].resourceId].currentBorrowerId
                  = borrowRequests[q].requestedBy

\* user holds resourceId through borrowResource: no approved request of the user
\* for the resource accounts for it
HoldsDirectly(resourceId, user) ==
    /\ resourceId \in DOMAIN storageResources
    /\ storageResources[resourceId].currentBorrowerId = user
    /\ \A q \in DOMAIN borrowRequests :
          ~ (/\ borrowRequests[q].resourceId = resourceId
             /\ borrowRequests[q].requestedBy = user
             /\ borrowRequests[q].status = "approved")

\* C28: while X holds r through borrowResource(r, X), r.currentBorrowerId changes
\* only by X's own returnResource(r, X).
C28_BorrowerKeepsResource ==
    [][\A r \in StoredResources, x \in Members :
        (/\ HoldsDirectly(r, x)
         /\ (r \notin DOMAIN storageResources'
                \/ storageResources'[r].currentBorrowerId # x))
        => (thrown'.op = "returnResource" /\ returnResource(r, x))]_vars

\* C29: every stored resource has isAvailable exactly when currentBorrowerId is
\* undefined, and a set currentBorrowerId is a user of the resource's circle other
\* than its owner.
C29_AvailabilityMatchesBorrower ==
    \A r \in DOMAIN storageResources :
        /\ storageResources[r].isAvailable
              <=> storageResources[r].currentBorrowerId = Undefined
        /\ storageResources[r].currentBorrowerId # Undefined =>
              /\ storageResources[r].currentBorrowerId
                    \in storageCircles[storageResources[r].circleId].users
              /\ storageResources[r].currentBorrowerId # storageResources[r].ownerId

\* the resource created again by u2 is borrowed by u1, its first owner, through an
\* approved request
C29_Witness ==
    \E r \in DOMAIN storageResources, q \in DOMAIN borrowRequests :
        /\ storageResources[r].ownerId = "u2"
        /\ ~storageResources[r].isAvailable
        /\ storageResources[r].currentBorrowerId = "u1"
        /\ borrowRequests[q] = [resourceId |-> r, requestedBy |-> "u1", status |-> "approved"]

\* the pending requests of requestedBy for resourceId
PendingOf(requests, resourceId, requestedBy) ==
    {q \in DOMAIN requests :
        /\ requests[q].resourceId = resourceId
        /\ requests[q].requestedBy = requestedBy
        /\ requests[q].status = "pending"}

\* C30: there is at most one pending borrow request per (resource, requester), and
\* createBorrowRequest by a user who has a pending request for the resource throws
\* and adds no request.
C30_OnePendingPerPair ==
    [][/\ borrowRequests' # borrowRequests =>
            \A r \in StoredResources, u \in Members :
                Cardinality(PendingOf(borrowRequests', r, u)) <= 1
       /\ (thrown'.op = "createBorrowRequest"
              /\ ~(thrown'.threw /\ borrowRequests' = borrowRequests)) =>
            \A r \in StoredResources, u \in Members :
                ~(PendingOf(borrowRequests, r, u) # {} /\ createBorrowRequest(r, u))]_vars

\* a createBorrowRequest has thrown while the resource is available and two users
\* hold a pending request for it
C30_Witness ==
    /\ thrown = Thrown("createBorrowRequest", TRUE)
    /\ \E r \in DOMAIN storageResources :
          /\ storageResources[r].isAvailable
          /\ PendingOf(borrowRequests, r, "u2") # {}
          /\ PendingOf(borrowRequests, r, "u3") # {}

\* C23: a join answered 201 leaves exactly one row per (circle, user), the joined
\* row active, and joining again changes neither the table nor the members.
C23_JoinIdempotent ==
    [][\A c \in Circles, u \in Users :
        (response'.op = "joinCircle" /\ response'.status = 201 /\ JoinCircle(c, u)) =>
            /\ \A x \in circle_members', y \in circle_members' :
                  (x.circle_id = y.circle_id /\ x.user_id = y.user_id) => x = y
            /\ MemberRow(c, u, TRUE) \in circle_members'
            /\ addMember(circle_members', c, u) = circle_members'
            /\ \A k \in Circles :
                  getMembers(addMember(circle_members', c, u), k)
                      = getMembers(circle_members', k)
            /\ \A x \in circle_members :
                  (x.circle_id # c \/ x.user_id # u) => x \in circle_members']_vars

\* a join has been answered 201 on a table that holds, besides an active row, a
\* row of a user who left
C23_Witness ==
    /\ response = Reply("joinCircle", 201)
    /\ \E x \in circle_members, y \in circle_members :
          x.is_active /\ ~y.is_active /\ x.circle_id = y.circle_id

\* C25: on every stored claims table and for every proposed interval with
\* start < end, the client's hasConflict on the resource's claims reports a
\* conflict exactly when the server's isAvailable reports not available.
C25_SingleOverlapRule ==
    \A r \in ResourceIds, s \in Times, e \in Times :
        s < e => (hasConflict(findByResource(claims, r), s, e)
                    <=> ~isAvailable(claims, r, s, e, NoClaim))

\* the claims table with the rows of every other resource removed
OwnRows(table, resourceId) ==
    LET Own(row) == row.resource_id = resourceId IN SelectSeq(table, Own)

\* the step leaves every row of resourceId as it was and adds none
RowsKept(resourceId) ==
    \A id \in DOMAIN claims' :
        claims'[id].resource_id = resourceId => (id \in DOMAIN claims /\ claims[id] = claims'[id])

\* C24: a step that creates, returns or cancels claims of other resources changes
\* neither isAvailable nor the requestClaim answer for resource a, and the
\* availability answer a concurrent request for a gets is the one the rows of a
\* alone give.
C24_ResourcesIndependent ==
    [][/\ claims' # claims =>
            \A a \in ResourceIds :
                RowsKept(a) =>
                    /\ \A s \in Times, e \in Times :
                          isAvailable(claims', a, s, e, NoClaim)
                              = isAvailable(claims, a, s, e, NoClaim)
                    /\ \A b \in IndepBodies :
                          ClaimStatus("u1", a, b)' = ClaimStatus("u1", a, b)
       /\ pc' # pc =>
            \A p \in Procs :
                (pc[p].at = "isAvailable" /\ pc'[p].at # "isAvailable") =>
                    (pc'[p].at = "create"
                       <=> isAvailable(OwnRows(claims, pc[p].resourceId), pc[p].resourceId,
                                       pc[p].body.start_time, pc[p].body.end_time,
                                       NoClaim))]_vars

\* two requests for the same slot of different resources, in flight together,
\* have both been answered 201
C24_Witness ==
    /\ \A p \in Procs : pc[p].at = "done" /\ pc[p].status = 201
    /\ \E p \in Procs, q \in Procs :
          /\ pc[p].resourceId # pc[q].resourceId
          /\ pc[p].body = pc[q].body
    /\ Len(claims) = 2
    /\ claims[1].resource_id # claims[2].resource_id
    /\ claims[1].status = "active" /\ claims[2].status = "active"

\* C26: a broadcast for slug writes the event exactly once to every client
\* registered under slug at the start whose write does not fail, whatever other
\* writes fail, and nothing to the clients of another slug.
C26_BroadcastReachesEveryClient ==
    [][\A slug \in Circles, fails \in SUBSET ClientIds :
        Broadcast(slug, fails) =>
            \A other \in DOMAIN clients : \A i \in 1..Len(clients[other]) :
                written'[clients[other][i]] =
                    IF other = slug /\ clients[other][i] \notin fails THEN 1 ELSE 0]_vars

====
